---- MODULE Spec2Model ----
(***************************************************************************)
(* Model of the PLM device class of ti_phase_light_modulator/__init__.py:  *)
(* the parameter fields, the cached phase buckets, construction and field  *)
(* assignment (param's watcher semantics), quantize, bitpack,              *)
(* process_phase_map and bitstack.                                         *)
(*                                                                         *)
(* Numbers.  Phases are integers in quarter turns, so the default          *)
(* phase_range (0, TWO_PI) is <<0, 4>>.  Displacement ratios are integers  *)
(* in halves (2 is the ratio 1.0).  Levels and bucket boundaries are kept  *)
(* exactly, as integers in units of 1/PhaseUnit of a quarter turn.         *)
(* Arrays are numpy arrays: a shape and the elements in C order.           *)
(***************************************************************************)
EXTENDS Integers, Sequences, FiniteSets, TLC

VARIABLES constructed, shape, phase_range, displacement_ratios, memory_lut,
          bitpack_layout, data_flip, phase_buckets, n_bits, call, ret

vars == <<constructed, shape, phase_range, displacement_ratios, memory_lut,
          bitpack_layout, data_flip, phase_buckets, n_bits, call, ret>>

fields == <<shape, phase_range, displacement_ratios, memory_lut,
            bitpack_layout, data_flip>>

cache == <<phase_buckets, n_bits>>

(* ------------------------------ bounds -------------------------------- *)

\* largest number of displacement levels of an enumerated profile
MaxN == 3

\* largest displacement ratio enumerated, in halves (4 is the ratio 2.0)
MaxRatio == 4

\* longest list of bit planes handed to bitstack
MaxPlanes == 9

(* ------------------------------ numbers ------------------------------- *)

RECURSIVE Fact(_)
Fact(n) == IF n <= 1 THEN 1 ELSE n * Fact(n - 1)

\* fixed-point denominator: ratios are halves, a boundary is a half sum, and
\* every level count n <= MaxN divides Fact(MaxN)
PhaseUnit == 4 * Fact(MaxN)

Fix(x) == x * PhaseUnit

Range(s) == {s[i] : i \in DOMAIN s}

Min2(a, b) == IF a < b THEN a ELSE b

RECURSIVE SeqsUpTo(_, _)
SeqsUpTo(S, n) ==
    IF n = 0 THEN {<<>>}
    ELSE LET shorter == SeqsUpTo(S, n - 1)
         IN  shorter \cup {Append(s, x) : s \in {t \in shorter : Len(t) = n - 1}, x \in S}

SeqsOfLen(S, n) == {s \in SeqsUpTo(S, n) : Len(s) = n}

(* ------------------------------ arrays -------------------------------- *)

RECURSIVE Prod(_)
Prod(s) == IF s = <<>> THEN 1 ELSE Head(s) * Prod(Tail(s))

Arr(sh, d) == [shape |-> sh, data |-> d]

\* the value held where a call returns no array
NoArr == Arr(<<0>>, <<>>)

Ndim(a) == Len(a.shape)

\* index tuple (0-based) of flat position k (0-based) in C order
RECURSIVE Unravel(_, _)
Unravel(k, sh) ==
    IF sh = <<>> THEN <<>>
    ELSE LET inner == Prod(Tail(sh))
         IN  <<k \div inner>> \o Unravel(k % inner, Tail(sh))

\* flat position (0-based) of an index tuple in C order
RECURSIVE Ravel(_, _)
Ravel(ix, sh) ==
    IF sh = <<>> THEN 0
    ELSE Head(ix) * Prod(Tail(sh)) + Ravel(Tail(ix), Tail(sh))

At(a, ix) == a.data[Ravel(ix, a.shape) + 1]

Indices(sh) == {Unravel(k, sh) : k \in 0..(Prod(sh) - 1)}

\* the array of shape sh whose element at index ix is f[ix]
FromIndex(sh, f(_)) == Arr(sh, [k \in 1..Prod(sh) |-> f(Unravel(k - 1, sh))])

MapArr(a, f(_)) == Arr(a.shape, [k \in 1..Len(a.data) |-> f(a.data[k])])

SwapAt(s, i, j) == [k \in 1..Len(s) |-> IF k = i THEN s[j] ELSE IF k = j THEN s[i] ELSE s[k]]

\* np.swapaxes(a, i, j), axes counted from 1
swapaxes(a, i, j) == FromIndex(SwapAt(a.shape, i, j), LAMBDA ix : At(a, SwapAt(ix, i, j)))

\* np.flip(a, axes), axes counted from 1
flip(a, axes) ==
    FromIndex(a.shape,
              LAMBDA ix : At(a, [k \in 1..Len(ix) |->
                                   IF k \in axes THEN a.shape[k] - 1 - ix[k] ELSE ix[k]]))

(* --------------------------- return values ---------------------------- *)

Ok(a) == [err |-> "none", val |-> a]

Raise(e) == [err |-> e, val |-> NoArr]

(* --------------------------- class defaults --------------------------- *)

\* default=(0, TWO_PI)
DefaultPhaseRange == <<0, 4>>

\* default=np.array([]): one dimension, no elements
EmptyArray == Arr(<<0>>, <<>>)

DefaultShape == <<0, 0>>

DefaultDataFlip == <<FALSE, FALSE>>

(* ------------------------ _update_phase_buckets ----------------------- *)

\* np.diff
diff(r) == [i \in 1..(Len(r) - 1) |-> r[i + 1] - r[i]]

\* phase_range[0] + (displacement_ratios * (n - 1) / n) * (phase_range[-1] - phase_range[0]),
\* then hstack with phase_range[-1]; in units of 1/PhaseUnit
phase_disp(ratios, range) ==
    LET n == Len(ratios)
    IN  [i \in 1..(n + 1) |->
           IF i <= n
           THEN Fix(range[1]) + (ratios[i] * (n - 1) * (range[2] - range[1]) * PhaseUnit) \div (2 * n)
           ELSE Fix(range[2])]

\* without the division by two
midpoints_sum(levels) == [i \in 1..(Len(levels) - 1) |-> levels[i] + levels[i + 1]]

\* (phase_disp[:-1] + phase_disp[1:]) / 2
midpoints(levels) == [i \in 1..(Len(levels) - 1) |-> (levels[i] + levels[i + 1]) \div 2]

\* accepts a plateau: diff >= 0
ratios_rejected_weak(ratios) ==
    Len(ratios) = 0 \/ ~(\A i \in DOMAIN diff(ratios) : diff(ratios)[i] >= 0)

\* the validation of the first statement of _update_phase_buckets
ratios_rejected(ratios) ==
    Len(ratios) = 0 \/ ~(\A i \in DOMAIN diff(ratios) : diff(ratios)[i] > 0)

\* the method on the field values it reads: the exception, or the two cached values
update_phase_buckets(ratios, range) ==
    IF ratios_rejected(ratios)
    THEN [err |-> "TIPLMException", n_bits |-> 0, buckets |-> <<>>]
    ELSE [err |-> "none", n_bits |-> Len(ratios),
          buckets |-> midpoints(phase_disp(ratios, range))]

(* ------------------------------ quantize ------------------------------ *)

\* numpy's check of the bins: 1 non-decreasing, -1 non-increasing, 0 neither
monotonicity(bins) ==
    IF \A i \in 1..(Len(bins) - 1) : bins[i] <= bins[i + 1] THEN 1
    ELSE IF \A i \in 1..(Len(bins) - 1) : bins[i] >= bins[i + 1] THEN -1
    ELSE 0

\* np.digitize(x, bins) for one element, right=False, bins monotonic:
\* bins[i-1] <= x < bins[i] if increasing, bins[i-1] > x >= bins[i] if decreasing
digitize(x, bins) ==
    IF monotonicity(bins) = 1
    THEN Cardinality({i \in DOMAIN bins : bins[i] <= Fix(x)})
    ELSE Cardinality({i \in DOMAIN bins : bins[i] > Fix(x)})

\* without the reduction modulo _n_bits
quantize_no_modulo(phase_map) ==
    IF monotonicity(phase_buckets) = 0 THEN Raise("ValueError")
    ELSE Ok(MapArr(phase_map, LAMBDA x : digitize(x, phase_buckets)))

quantize(phase_map) ==
    IF monotonicity(phase_buckets) = 0 THEN Raise("ValueError")
    ELSE Ok(MapArr(phase_map, LAMBDA x : digitize(x, phase_buckets) % n_bits))

(* ------------------------------ bitpack ------------------------------- *)

\* astype(np.uint8)
uint8(v) == v % 256

\* np.bitwise_right_shift of a non-negative integer by b places
RECURSIVE right_shift(_, _)
right_shift(m, b) == IF b = 0 \/ m = 0 THEN m ELSE right_shift(m \div 2, b - 1)

\* self.memory_lut[phase_state_idx]
lookup(phase_state_idx, lut) == MapArr(phase_state_idx, LAMBDA i : lut[i + 1])

\* right shift of memory[..., None, None] by the layout broadcast against it,
\* cast to uint8 and masked with 1: two axes of the layout's shape are added
shift_mask(memory, layout) ==
    LET nd == Ndim(memory)
    IN  FromIndex(memory.shape \o layout.shape,
                  LAMBDA ix : uint8(right_shift(At(memory, SubSeq(ix, 1, nd)),
                                                uint8(At(layout, SubSeq(ix, nd + 1, nd + 2))))) % 2)

\* np.concat([memory.shape[:-2], np.multiply(memory.shape[-2:], layout.shape)]);
\* a one-dimensional memory broadcasts its length against both layout dimensions
new_shape(mshape, lshape) ==
    LET nd == Len(mshape)
    IN  IF nd >= 2
        THEN SubSeq(mshape, 1, nd - 2) \o <<mshape[nd - 1] * lshape[1], mshape[nd] * lshape[2]>>
        ELSE <<mshape[1] * lshape[1], mshape[1] * lshape[2]>>

\* .reshape(new_shape): the elements in C order under the new shape
reshape(a, sh) == IF Prod(sh) = Prod(a.shape) THEN Ok(Arr(sh, a.data)) ELSE Raise("ValueError")

\* counts the axes from the front
flip_axes_front(dflip, nd) == {idx : idx \in {i \in 1..2 : dflip[i]}}

\* [-2 + idx for idx, flip in enumerate(data_flip) if flip], as axes of an nd-dimensional array
flip_axes(dflip, nd) == {nd - 2 + idx : idx \in {i \in 1..2 : dflip[i]}}

\* leaves the layout axes behind the column axis
interleave_skipped(out) == out

\* np.swapaxes(out, -2, -3)
interleave(out) == swapaxes(out, Ndim(out) - 1, Ndim(out) - 2)

\* bitpack on the field values it reads
bitpack_with(phase_state_idx, lut, layout, dflip) ==
    LET memory   == lookup(phase_state_idx, lut)
        out      == shift_mask(memory, layout)
        reshaped == reshape(interleave(out), new_shape(memory.shape, layout.shape))
    IN  IF reshaped.err # "none" THEN reshaped
        ELSE Ok(flip(reshaped.val, flip_axes(dflip, Ndim(reshaped.val))))

bitpack(phase_state_idx) == bitpack_with(phase_state_idx, memory_lut, bitpack_layout, data_flip)

(* -------------------------- process_phase_map ------------------------- *)

\* checks the column count only
shape_rejected_cols(phase_map, enforce_shape) ==
    /\ enforce_shape
    /\ \/ Ndim(phase_map) < 2
       \/ phase_map.shape[Ndim(phase_map)] # shape[2]

\* enforce_shape and (len(phase_map.shape) < 2 or phase_map.shape[-2] != self.shape[0]
\*                    or phase_map.shape[-1] != self.shape[1])
shape_rejected(phase_map, enforce_shape) ==
    /\ enforce_shape
    /\ \/ Ndim(phase_map) < 2
       \/ phase_map.shape[Ndim(phase_map) - 1] # shape[1]
       \/ phase_map.shape[Ndim(phase_map)] # shape[2]

\* shifts the bit to the top of the byte instead
replicate_msb(out) == MapArr(out, LAMBDA v : uint8(v * 128))

\* out *= 255 on a uint8 array
replicate(out) == MapArr(out, LAMBDA v : uint8(v * 255))

process_phase_map(phase_map, replicate_bits, enforce_shape) ==
    IF shape_rejected(phase_map, enforce_shape) THEN Raise("TIPLMException")
    ELSE LET q == quantize(phase_map)
         IN  IF q.err # "none" THEN q
             ELSE LET out == bitpack(q.val)
                  IN  IF out.err # "none" THEN out
                      ELSE IF replicate_bits THEN Ok(replicate(out.val)) ELSE out

(* ------------------------------ bitstack ------------------------------ *)

\* util.bitstack: groups of at most 8 planes, plane i of a group at bit i
RECURSIVE pow2(_)
pow2(i) == IF i = 0 THEN 1 ELSE 2 * pow2(i - 1)

stack_group(planes) ==
    [p \in 1..Len(planes[1]) |-> uint8(LET S[i \in 0..Len(planes)] ==
                                             IF i = 0 THEN 0 ELSE S[i - 1] + planes[i][p] * pow2(i - 1)
                                       IN  S[Len(planes)])]

bitstack(bitmaps) ==
    LET n == Len(bitmaps)
        groups == (n + 7) \div 8
    IN  [g \in 1..groups |-> stack_group(SubSeq(bitmaps, 8 * (g - 1) + 1, Min2(8 * g, n)))]

\* hands the planes over in reverse order
PLM_bitstack_reversed(bitmaps) == bitstack([i \in 1..Len(bitmaps) |-> bitmaps[Len(bitmaps) + 1 - i]])

\* PLM.bitstack, the static method
PLM_bitstack(bitmaps) == bitstack(bitmaps)

(* ------------------------------- inputs ------------------------------- *)

StrictlyIncreasing(s) == \A i, j \in DOMAIN s : i < j => s[i] < s[j]

\* arrays a caller may pass as displacement_ratios: every strictly increasing one
\* within the bounds, the omitted (empty) one, one with a plateau and one with a descent
RejectedRatios == {<<>>, <<1, 1>>, <<0, 2, 1>>}

RatioInputs ==
    {s \in SeqsUpTo(0..MaxRatio, MaxN) : s # <<>> /\ StrictlyIncreasing(s)} \cup RejectedRatios

\* the default range, one around zero, and one given upside down (param.Range
\* checks the order of a range only when a step is declared)
PhaseRanges == {<<0, 4>>, <<-2, 2>>, <<2, 0>>}

PhaseVals == {-2, -1, 0, 1, 2, 3, 4}

PhaseMaps ==
    {Arr(<<1>>, s) : s \in SeqsOfLen(PhaseVals, 1)} \cup {Arr(<<1, 2>>, s) : s \in SeqsOfLen({0, 2, 4}, 2)}

\* the electrode layout of the parameter's documentation, a row and a column
Layout2x2 == Arr(<<2, 2>>, <<2, 3, 0, 1>>)

Layout1x2 == Arr(<<1, 2>>, <<1, 0>>)

Layout2x1 == Arr(<<2, 1>>, <<0, 3>>)

\* a layout with three dimensions
Layout3D == Arr(<<1, 2, 2>>, <<2, 3, 0, 1>>)

\* profiles for the life cycle of the cached buckets: every ratio array and range,
\* the layout omitted, two-dimensional or three-dimensional
ProfileInputs ==
    [shape : {<<1, 2>>}, phase_range : PhaseRanges, displacement_ratios : RatioInputs,
     memory_lut : {EmptyArray.data}, bitpack_layout : {EmptyArray, Layout2x2, Layout3D},
     data_flip : {DefaultDataFlip}]

\* displacement ratios with the memory table of the same length
DeviceTables == {<<<<0, 2>>, <<0, 3>>>>, <<<<0, 1, 2>>, <<5, 0, 10>>>>}

\* valid devices for the encoder
DeviceInputs ==
    {[shape |-> sh, phase_range |-> pr, displacement_ratios |-> t[1], memory_lut |-> t[2],
      bitpack_layout |-> lay, data_flip |-> <<fr, fc>>] :
        sh \in {<<1, 2>>, <<2, 1>>}, pr \in {<<0, 4>>, <<-2, 2>>}, t \in DeviceTables,
        lay \in {Layout2x2, Layout1x2, Layout2x1}, fr \in BOOLEAN, fc \in BOOLEAN}

ArrayShapes == {<<2>>, <<1, 2>>, <<2, 1>>, <<2, 2>>, <<2, 1, 2>>}

ArraysOver(S) == UNION {{Arr(sh, d) : d \in SeqsOfLen(S, Prod(sh))} : sh \in ArrayShapes}

BitPlanes == {<<0, 0>>, <<0, 1>>, <<1, 1>>}

\* the lists of the repository's test: 8 and 24 planes of ones
OnesLists == {[i \in 1..n |-> <<1, 1>>] : n \in {8, 24}}

BitmapLists == (SeqsUpTo(BitPlanes, MaxPlanes) \ {<<>>}) \cup OnesLists

(* ------------------------------- actions ------------------------------ *)

NoCall == [op |-> "none", arg |-> <<>>, replicate_bits |-> FALSE, enforce_shape |-> FALSE]

Call(op, arg) == [NoCall EXCEPT !.op = op, !.arg = arg]

Init ==
    /\ constructed = FALSE
    /\ shape = DefaultShape
    /\ phase_range = DefaultPhaseRange
    /\ displacement_ratios = EmptyArray.data
    /\ memory_lut = EmptyArray.data
    /\ bitpack_layout = EmptyArray
    /\ data_flip = DefaultDataFlip
    /\ phase_buckets = <<>>
    /\ n_bits = 0
    /\ call = NoCall
    /\ ret = Ok(NoArr)

\* PLM(**params): the parameters are set, _update_phase_buckets runs (on_init),
\* then the layout is checked; an exception leaves no object
PLM_init(p) ==
    /\ ~constructed
    /\ call' = Call("init", p)
    /\ LET u == update_phase_buckets(p.displacement_ratios, p.phase_range)
       IN  IF u.err # "none" \/ Ndim(p.bitpack_layout) # 2
           THEN /\ ret' = Raise("TIPLMException")
                /\ UNCHANGED <<constructed, fields, cache>>
           ELSE /\ ret' = Ok(NoArr)
                /\ constructed' = TRUE
                /\ shape' = p.shape
                /\ phase_range' = p.phase_range
                /\ displacement_ratios' = p.displacement_ratios
                /\ memory_lut' = p.memory_lut
                /\ bitpack_layout' = p.bitpack_layout
                /\ data_flip' = p.data_flip
                /\ phase_buckets' = u.buckets
                /\ n_bits' = u.n_bits

\* bitpack, process_phase_map and bitstack change no field: a run makes one such
\* call on the device it built, any further call would start from the same fields
FirstCall == call.op \in {"none", "init"}

\* quantize changes no field either: a run of assignments ends with its quantize
\* call, any continuation would start from the fields the call found
Quantized == call.op = "quantize"

\* the watcher of _update_phase_buckets, run after the new value is stored
run_watcher(ratios, range) ==
    LET u == update_phase_buckets(ratios, range)
    IN  IF u.err # "none"
        THEN /\ ret' = Raise("TIPLMException")
             /\ UNCHANGED cache
        ELSE /\ ret' = Ok(NoArr)
             /\ phase_buckets' = u.buckets
             /\ n_bits' = u.n_bits

\* plm.displacement_ratios = v: param stores the value, then calls the watcher
set_displacement_ratios(v) ==
    /\ constructed
    /\ ~Quantized
    /\ call' = Call("set_displacement_ratios", v)
    /\ displacement_ratios' = v
    /\ run_watcher(v, phase_range)
    /\ UNCHANGED <<constructed, shape, phase_range, memory_lut, bitpack_layout, data_flip>>

\* plm.phase_range = v: param stores the value and calls the watcher if the value changed
set_phase_range(v) ==
    /\ constructed
    /\ ~Quantized
    /\ call' = Call("set_phase_range", v)
    /\ phase_range' = v
    /\ IF v = phase_range
       THEN ret' = Ok(NoArr) /\ UNCHANGED cache
       ELSE run_watcher(displacement_ratios, v)
    /\ UNCHANGED <<constructed, shape, displacement_ratios, memory_lut, bitpack_layout, data_flip>>

Construct == \E p \in ProfileInputs : PLM_init(p)

ConstructDevice == \E p \in DeviceInputs : PLM_init(p)

SetDisplacementRatios == \E v \in RatioInputs : set_displacement_ratios(v)

SetPhaseRange == \E v \in PhaseRanges : set_phase_range(v)

Quantize ==
    /\ constructed
    /\ ~Quantized
    /\ \E pm \in PhaseMaps :
          /\ call' = Call("quantize", pm)
          /\ ret' = quantize(pm)
    /\ UNCHANGED <<constructed, fields, cache>>

Bitpack ==
    /\ constructed
    /\ FirstCall
    /\ \E idx \in ArraysOver(0..(n_bits - 1)) :
          /\ call' = Call("bitpack", idx)
          /\ ret' = bitpack(idx)
    /\ UNCHANGED <<constructed, fields, cache>>

ProcessPhaseMap ==
    /\ constructed
    /\ FirstCall
    /\ \E pm \in ArraysOver({0, 2}), rb \in BOOLEAN, es \in BOOLEAN :
          /\ call' = [op |-> "process_phase_map", arg |-> pm, replicate_bits |-> rb, enforce_shape |-> es]
          /\ ret' = process_phase_map(pm, rb, es)
    /\ UNCHANGED <<constructed, fields, cache>>

Bitstack ==
    /\ FirstCall
    /\ \E b \in BitmapLists :
          /\ call' = Call("bitstack", b)
          /\ ret' = [err |-> "none", val |-> PLM_bitstack(b)]
    /\ UNCHANGED <<constructed, fields, cache>>

\* a profile, its field assignments and quantize
Next == Construct \/ SetDisplacementRatios \/ SetPhaseRange \/ Quantize

Spec == Init /\ [][Next]_vars

\* a device and its encoder
NextEncode == ConstructDevice \/ Bitpack \/ ProcessPhaseMap

SpecEncode == Init /\ [][NextEncode]_vars

\* the bit-plane packer, callable without a profile
NextStack == Bitstack

SpecStack == Init /\ [][NextStack]_vars

(* ======================= properties of the encoder ==================== *)

\* bit b of the non-negative integer m
BitOf(m, b) == (m \div (2 ^ b)) % 2

Rows(a) == a.shape[Ndim(a) - 1]

Cols(a) == a.shape[Ndim(a)]

Lead(ix) == SubSeq(ix, 1, Len(ix) - 2)

Mirror(ix, sh, fr, fc) ==
    [k \in 1..Len(ix) |->
        IF (k = Len(ix) - 1 /\ fr) \/ (k = Len(ix) /\ fc) THEN sh[k] - 1 - ix[k] ELSE ix[k]]

\* C9: bitpack with data_flip = (fr, fc) is the bitpack result of the same profile
\* with data_flip = (false, false), reversed along the output row axis iff fr and
\* along the output column axis iff fc; leading axes are never reversed.
ThmDataFlip ==
    (call.op = "bitpack" /\ Ndim(call.arg) >= 2) =>
        LET plain == bitpack_with(call.arg, memory_lut, bitpack_layout, <<FALSE, FALSE>>)
        IN  /\ ret.err = "none"
            /\ plain.err = "none"
            /\ ret.val.shape = plain.val.shape
            /\ \A ix \in Indices(plain.val.shape) :
                  At(ret.val, ix) = At(plain.val, Mirror(ix, plain.val.shape, data_flip[1], data_flip[2]))
            /\ (data_flip = <<TRUE, FALSE>>) =>
                  flip(ret.val, {Ndim(ret.val) - 1}) = plain.val

\* a row-flipped device has packed a three-dimensional array: the flip changed the
\* bitmap, and reversing the leading axis as well would have changed it again
WitDataFlip ==
    /\ call.op = "bitpack"
    /\ data_flip = <<TRUE, FALSE>>
    /\ call.arg.shape = <<2, 1, 2>>
    /\ ret.err = "none"
    /\ ret.val # bitpack_with(call.arg, memory_lut, bitpack_layout, <<FALSE, FALSE>>).val
    /\ flip(ret.val, {1}) # ret.val

\* the last two dimensions of the phase map differ from shape, or there are fewer than two
Mismatched(pm) == Ndim(pm) < 2 \/ SubSeq(pm.shape, Ndim(pm) - 1, Ndim(pm)) # shape

\* bitpack(quantize(phase_map)), an exception of either step passed on
Pipeline(pm) ==
    LET q == quantize(pm)
    IN  IF q.err # "none" THEN q ELSE bitpack(q.val)

Times255(a) == Arr(a.shape, [k \in DOMAIN a.data |-> 255 * a.data[k]])

\* C4 as stated: with enforce_shape on a mismatched phase map the shape error is
\* raised and no bitmap returned; otherwise no shape error is raised and the
\* result is bitpack(quantize(phase_map)).
CexProcessShape ==
    (call.op = "process_phase_map") =>
        IF call.enforce_shape /\ Mismatched(call.arg)
        THEN ret = Raise("TIPLMException")
        ELSE ret.err # "TIPLMException" /\ ret = Pipeline(call.arg)

\* C4 amended: as stated, the result being bitpack(quantize(phase_map)) with
\* every element multiplied by 255 when replicate_bits is true.
ThmProcessShape ==
    (call.op = "process_phase_map") =>
        IF call.enforce_shape /\ Mismatched(call.arg)
        THEN ret = Raise("TIPLMException")
        ELSE /\ ret.err # "TIPLMException"
             /\ LET packed == Pipeline(call.arg)
                IN  IF call.replicate_bits /\ packed.err = "none"
                    THEN ret = Ok(Times255(packed.val))
                    ELSE ret = packed

\* process_phase_map has refused a two-dimensional phase map whose rows and
\* columns are those of the device exchanged
WitProcessShape ==
    /\ call.op = "process_phase_map"
    /\ call.enforce_shape
    /\ Ndim(call.arg) = 2
    /\ call.arg.shape = <<shape[2], shape[1]>>
    /\ call.arg.shape # shape
    /\ ret = Raise("TIPLMException")

AllZero(a) == \A k \in DOMAIN a.data : a.data[k] = 0

\* the result with replicate_bits is 255 times the result without, element by
\* element, each 0 or 255; without it each element is 0 or 1
ReplicateLaw ==
    LET plain == process_phase_map(call.arg, FALSE, call.enforce_shape)
    IN  /\ plain.err = "none"
        /\ \A k \in DOMAIN plain.val.data : plain.val.data[k] \in {0, 1}
        /\ IF call.replicate_bits
           THEN /\ ret.val.shape = plain.val.shape
                /\ \A k \in DOMAIN ret.val.data :
                      ret.val.data[k] = 255 * plain.val.data[k] /\ ret.val.data[k] \in {0, 255}
           ELSE ret = plain

\* C8 as stated: the replication law, and an all-zero phase map on a device with
\* memory_lut[0] = 0 gives an all-zero bitmap in both modes.
CexReplicate ==
    (call.op = "process_phase_map" /\ ret.err = "none") =>
        /\ ReplicateLaw
        /\ (AllZero(call.arg) /\ memory_lut[1] = 0) => AllZero(ret.val)

\* C8 amended: the replication law, and an all-zero phase map on a device with
\* memory_lut[0] = 0 whose phase_range starts at 0 (lo = 0 < hi) and whose ratios
\* are non-negative gives an all-zero bitmap in both modes.
ThmReplicate ==
    (call.op = "process_phase_map" /\ ret.err = "none") =>
        /\ ReplicateLaw
        /\ (/\ AllZero(call.arg)
            /\ memory_lut[1] = 0
            /\ phase_range[1] = 0 /\ phase_range[2] > 0
            /\ \A i \in DOMAIN displacement_ratios : displacement_ratios[i] >= 0) => AllZero(ret.val)

\* a replicated bitmap holding both 0 and 255 has been returned
WitReplicate ==
    /\ call.op = "process_phase_map"
    /\ call.replicate_bits
    /\ ret.err = "none"
    /\ Range(ret.val.data) = {0, 255}

(* =================== properties of the cached buckets ================= *)

Valid(ratios) == ratios # <<>> /\ StrictlyIncreasing(ratios)

\* level i of the n + 1 levels (the scaled ratios followed by hi), times 2n
LevelNum(ratios, range, i) ==
    LET n == Len(ratios)
    IN  IF i <= n
        THEN 2 * n * range[1] + ratios[i] * (n - 1) * (range[2] - range[1])
        ELSE 2 * n * range[2]

\* b holds the n boundaries of ratios and range: boundary i is the midpoint of
\* levels i and i + 1
IsBoundaries(b, ratios, range) ==
    /\ Len(b) = Len(ratios)
    /\ \A i \in 1..Len(ratios) :
          4 * Len(ratios) * b[i]
            = PhaseUnit * (LevelNum(ratios, range, i) + LevelNum(ratios, range, i + 1))

\* C2: for a profile whose displacement_ratios is strictly increasing with length
\* n, and any input phase values, every element quantize returns is an integer
\* in [0, n) and the result has the shape of the input.
ThmQuantizeRange ==
    (call.op = "quantize" /\ Valid(displacement_ratios) /\ ret.err = "none") =>
        /\ ret.val.shape = call.arg.shape
        /\ Len(ret.val.data) = Len(call.arg.data)
        /\ \A k \in DOMAIN ret.val.data : ret.val.data[k] \in 0..(Len(displacement_ratios) - 1)

\* a profile of three levels has quantized a value above its phase_range to
\* level 0 and a value inside it to the top level
WitQuantizeRange ==
    /\ call.op = "quantize"
    /\ Valid(displacement_ratios)
    /\ Len(displacement_ratios) = 3
    /\ ret.err = "none"
    /\ \E k \in DOMAIN call.arg.data : call.arg.data[k] > phase_range[2] /\ ret.val.data[k] = 0
    /\ \E k \in DOMAIN call.arg.data :
          /\ phase_range[1] <= call.arg.data[k] /\ call.arg.data[k] < phase_range[2]
          /\ ret.val.data[k] = 2

\* quantizing hi yields level 0 because hi lies at or above all n boundaries and
\* the boundary search returns n
MaxWraps ==
    \A k \in DOMAIN call.arg.data :
        (call.arg.data[k] = phase_range[2]) =>
            /\ ret.err = "none"
            /\ ret.val.data[k] = 0
            /\ \A i \in DOMAIN phase_buckets : phase_buckets[i] <= Fix(phase_range[2])
            /\ digitize(phase_range[2], phase_buckets) = Len(displacement_ratios)

\* C3 as stated: for any strictly increasing displacement_ratios and any
\* phase_range (lo, hi), quantizing hi yields level 0, hi lying at or above all
\* n boundaries.
CexMaxWrapsToZero ==
    (call.op = "quantize" /\ Valid(displacement_ratios)) => MaxWraps

\* C3 amended: the same for strictly increasing displacement_ratios none of which
\* exceeds 1 and a phase_range with lo <= hi.
ThmMaxWrapsToZero ==
    (/\ call.op = "quantize"
     /\ Valid(displacement_ratios)
     /\ \A i \in DOMAIN displacement_ratios : displacement_ratios[i] <= 2
     /\ phase_range[1] <= phase_range[2]) => MaxWraps

\* a profile of three levels with ratios up to 1 has quantized its phase_range
\* maximum, next to a value that did not wrap
WitMaxWrapsToZero ==
    /\ call.op = "quantize"
    /\ displacement_ratios = <<0, 1, 2>>
    /\ phase_range[1] < phase_range[2]
    /\ ret.err = "none"
    /\ \E k \in DOMAIN call.arg.data : call.arg.data[k] = phase_range[2] /\ ret.val.data[k] = 0
    /\ \E k \in DOMAIN call.arg.data : ret.val.data[k] # 0

\* C6: construction fails with the configuration error if bitpack_layout is not
\* two-dimensional or displacement_ratios is empty (or omitted) or not strictly
\* increasing; otherwise it succeeds with the boundaries computed and n_bits the
\* number of ratios.
ThmConstruct ==
    (call.op = "init") =>
        LET p   == call.arg
            bad == \/ Ndim(p.bitpack_layout) # 2
                   \/ p.displacement_ratios = <<>>
                   \/ ~StrictlyIncreasing(p.displacement_ratios)
        IN  IF bad
            THEN ret = Raise("TIPLMException") /\ ~constructed
            ELSE /\ ret.err = "none"
                 /\ constructed
                 /\ displacement_ratios = p.displacement_ratios
                 /\ phase_range = p.phase_range
                 /\ bitpack_layout = p.bitpack_layout
                 /\ n_bits = Len(p.displacement_ratios)
                 /\ IsBoundaries(phase_buckets, p.displacement_ratios, p.phase_range)

\* a construction with valid ratios and a three-dimensional layout has failed
WitConstruct ==
    /\ call.op = "init"
    /\ Valid(call.arg.displacement_ratios)
    /\ Ndim(call.arg.bitpack_layout) = 3
    /\ ret = Raise("TIPLMException")
    /\ ~constructed

\* C7 as stated: at every quantize call the cached boundaries and level count are
\* those derived from the current displacement_ratios and phase_range.
CexBucketsFresh ==
    (call.op = "quantize") =>
        /\ n_bits = Len(displacement_ratios)
        /\ IsBoundaries(phase_buckets, displacement_ratios, phase_range)

\* C10 as stated: in every state of a constructed profile displacement_ratios is
\* non-empty and strictly increasing and n_bits is its length.
CexRatiosInvariant ==
    constructed => (Valid(displacement_ratios) /\ n_bits = Len(displacement_ratios))

(* ======================= properties of bitstack ======================= *)

RECURSIVE GroupSum(_, _, _, _)
\* sum over i in 0..k-1 of bitmaps[8g + i][p] << i, groups and planes counted from 0
GroupSum(bitmaps, g, p, k) ==
    IF k = 0 THEN 0
    ELSE GroupSum(bitmaps, g, p, k - 1) + bitmaps[8 * g + k][p] * (2 ^ (k - 1))

\* C5: for N >= 1 planes of values in {0, 1}, bitstack returns ceil(N/8) planes of
\* the plane shape with output[g][p] the sum of bitmaps[8g+i][p] << i over the
\* planes of group g; 8 planes of ones give one plane of 255 and 24 give three.
ThmBitstack ==
    (call.op = "bitstack") =>
        LET bitmaps == call.arg
            N       == Len(bitmaps)
            out     == ret.val
        IN  /\ ret.err = "none"
            /\ 8 * (Len(out) - 1) < N /\ N <= 8 * Len(out)
            /\ \A g \in 1..Len(out) :
                  /\ Len(out[g]) = Len(bitmaps[1])
                  /\ \A p \in 1..Len(out[g]) :
                        out[g][p] = GroupSum(bitmaps, g - 1, p, Min2(8, N - 8 * (g - 1)))
            /\ (bitmaps = [i \in 1..8 |-> <<1, 1>>]) => out = <<<<255, 255>>>>
            /\ (bitmaps = [i \in 1..24 |-> <<1, 1>>]) => out = [g \in 1..3 |-> <<255, 255>>]

\* nine planes have been packed into a full group and a group of one plane
WitBitstack ==
    /\ call.op = "bitstack"
    /\ Len(call.arg) = 9
    /\ Len(ret.val) = 2
    /\ ret.val[1] = <<0, 170>>
    /\ ret.val[2] = <<1, 1>>

====
